---- MODULE Spec2Model ----
(***************************************************************************)
(* Transfer job orchestrator of delivery-prototypes:                        *)
(*   src/transfersubmit.py  TransferSubmit.render_POST (the intake saga)    *)
(*   src/ftsmanager.py      _transfer_queue_listener, _start_fts_transfer,  *)
(*                          _FTSUpdater, init_fts_manager                   *)
(* Every action is one run of the Twisted reactor between two suspension    *)
(* points (a yield on a Deferred that has not fired yet, or a call queued   *)
(* with reactor.callFromThread).                                            *)
(***************************************************************************)
EXTENDS Integers, Sequences, FiniteSets, TLC

\* Bounds of the model.
MaxJobs == 2          \* submissions (render_POST calls), one job_uuid each
MaxMsgs == 2          \* messages ever published on the transfer-intake queue
concurrent_max == 1   \* N, the configured size of the admission gate
GateSizes == {concurrent_max, concurrent_max + 1}   \* the values of N examined
MaxInFlight == 1      \* requests whose Deferred chain has not ended

Jobs == 1..MaxJobs
Tags == 1..MaxMsgs    \* delivery tags; the execution dispatched for a tag uses
                      \* the tag as the FTS job id it is given by fts3.submit
EmptyBody == 0        \* a message whose body is the empty string

FormVars == {"productID", "destinationPath"}

VARIABLES
  \* --- table jobs (one row per job_uuid) ---
  status,        \* "NONE" (no row) | "ERROR" | "STAGING" | "TRANSFERRING" | "SUCCESS"
  fts_jobid,     \* 0 (NULL) or the FTS job id
  fts_details,   \* "NULL" or the job_state of the last stored fts_job_status
  extra_status,  \* "NULL" or the diagnostic written with status ERROR
  \* --- TransferSubmit.render_POST, one Deferred chain per request ---
  spc,           \* position of the chain
  resp,          \* the HTTP response: code, body, job_id of the body, finished
  failed,        \* which step of the chain failed ("none" if none)
  sq,            \* job ids published on the staging-intake queue
  \* --- broker, transfer-intake queue ---
  tq,            \* bodies published so far; index = delivery tag
  delivered,     \* number of messages delivered to the consumer
  acked,         \* delivery tags acknowledged with basic_ack
  \* --- _transfer_queue_listener ---
  lpc,           \* "get" (in queue.get()) | "acquire" (in _sem_fts.acquire())
                 \* | "dead" (the generator was left by an exception)
  ltrace,        \* per tag, what the listener did for it, in order
  \* --- _sem_fts (DeferredSemaphore) ---
  tokens,        \* free slots
  limit,         \* the size the semaphore was made with, int(concurrent_max)
  \* --- _start_fts_transfer, one run per dispatched tag ---
  exec,          \* position / exit of the run
  errw,          \* the unawaited "UPDATE ... status='ERROR'" of the run, if pending
  execLog,       \* per tag: was it a redelivery after the job left STAGING
  \* --- external transfer service ---
  ftsState,      \* per FTS job id: "NONE" | "ACTIVE" | "FINISHED" | "FAILED"
  \* --- _FTSUpdater ---
  ppc,           \* "idle" | "update" | "resume"
  plist,         \* rows of r not yet handled in this run: <<job_id, fts_jobid>>
  pcur,          \* the row being handled and the job_state seen for it
  plog,          \* per FTS job id: terminal updates committed / slots released
  everStaging    \* per job: status has been STAGING

dbvars   == <<status, fts_jobid, fts_details, extra_status, everStaging>>
sagavars == <<spc, resp, failed, sq>>
qvars    == <<tq, delivered, acked>>
lvars    == <<lpc, ltrace>>
semvars  == <<tokens, limit>>
xvars    == <<exec, errw, execLog>>
pvars    == <<ppc, plist, pcur, plog>>
vars == <<dbvars, sagavars, qvars, lvars, semvars, xvars, ftsState, pvars>>

NoResp == [code |-> 0, body |-> "none", job_id |-> 0, finished |-> FALSE]
NoCur  == [job_id |-> 0, fts_jobid |-> 0, state |-> "NONE"]
NoLog  == [left |-> FALSE]

Terminal == {"SUCCESS", "ERROR"}

Init ==
  /\ status = [j \in Jobs |-> "NONE"]
  /\ fts_jobid = [j \in Jobs |-> 0]
  /\ fts_details = [j \in Jobs |-> "NULL"]
  /\ extra_status = [j \in Jobs |-> "NULL"]
  /\ everStaging = [j \in Jobs |-> FALSE]
  /\ spc = [j \in Jobs |-> "idle"]
  /\ resp = [j \in Jobs |-> NoResp]
  /\ failed = [j \in Jobs |-> "none"]
  /\ sq = {}
  /\ tq = <<>>
  /\ delivered = 0
  /\ acked = {}
  /\ lpc = "get"
  /\ ltrace = [t \in Tags |-> <<>>]
  /\ limit \in GateSizes
  /\ tokens = limit
  /\ exec = [t \in Tags |-> "none"]
  /\ errw = [t \in Tags |-> "none"]
  /\ execLog = [t \in Tags |-> NoLog]
  /\ ftsState = [t \in Tags |-> "NONE"]
  /\ ppc = "idle"
  /\ plist = {}
  /\ pcur = NoCur
  /\ plog = [t \in Tags |-> [terminal |-> 0, released |-> 0]]

(***************************************************************************)
(* TransferSubmit.render_POST: the intake saga                              *)
(***************************************************************************)

\* handleCreationError: sets the code, then isinstance(SubmitException, e.value)
\* raises TypeError (its second argument is an instance), so neither
\* request.write nor request.finish is reached.
handleCreationError(r) == [r EXCEPT !.code = 500]

\* report_job_creation: 202, the success body with job_uuid, finish.
report_job_creation(r, j) ==
  [code |-> 202, body |-> "accepted", job_id |-> j, finished |-> TRUE]

InFlight == {"add_initial", "add_to_rabbitmq", "update_job_status_submitted"}

\* Lines 64-72: the answer returned at once to a request that lacks a form
\* field (NoResp: the request has both).
form_check(args) ==
  IF FormVars \subseteq args
    THEN NoResp
    ELSE [code |-> 400, body |-> "error", job_id |-> 0, finished |-> TRUE]

\* render_POST up to its return. A request without one of the form fields is
\* answered 400 at once, before a job_uuid is made, and leaves no trace.
\* Otherwise job_uuid j is made (the next unused one), the chain is built,
\* runInteraction(add_initial) is under way and NOT_DONE_YET is returned.
render_POST(j, args) ==
  /\ spc[j] = "idle"
  /\ Cardinality({i \in Jobs : spc[i] \in InFlight}) < MaxInFlight
  /\ \A i \in Jobs : i < j => spc[i] # "idle"
  /\ spc' = IF form_check(args) = NoResp THEN [spc EXCEPT ![j] = "add_initial"]
                                         ELSE spc
  /\ UNCHANGED <<dbvars, resp, failed, sq, qvars, lvars, semvars, xvars, ftsState,
                 pvars>>

\* Mutant: the chain goes on to publish after a failed INSERT.
chain_next_publishes_without_record(step, ok) ==
  CASE step = "add_initial" -> "add_to_rabbitmq"
    [] step = "add_to_rabbitmq" ->
         IF ok THEN "update_job_status_submitted" ELSE "errback"
    [] step = "update_job_status_submitted" -> "reported"

\* Mutant: the chain goes on to the next callback after a failed publish.
chain_next_ignores_publish_failure(step, ok) ==
  CASE step = "add_initial" ->
         IF ok THEN "add_to_rabbitmq" ELSE "errback"
    [] step = "add_to_rabbitmq" -> "update_job_status_submitted"
    [] step = "update_job_status_submitted" -> "reported"

\* Lines 147-151, the Deferred chain: where the chain goes after a step that
\* returned (ok) or raised. A step that raised sends the chain to the errback,
\* past the callbacks not yet run. update_job_status_submitted never raises:
\* when its UPDATE fails it returns a string, so report_job_creation runs.
chain_next(step, ok) ==
  CASE step = "add_initial" ->
         IF ok THEN "add_to_rabbitmq" ELSE "errback"
    [] step = "add_to_rabbitmq" ->
         IF ok THEN "update_job_status_submitted" ELSE "errback"
    [] step = "update_job_status_submitted" -> "reported"

\* The response after the step the chain went to.
chain_response(r, j, next) ==
  CASE next = "errback" -> handleCreationError(r)
    [] next = "reported" -> report_job_creation(r, j)
    [] OTHER -> r

\* Mutant: the message is not published.
basic_publish_dropped(q, j) == q

\* Line 99: basic_publish of job_uuid on the staging queue.
basic_publish(q, j) == q \cup {j}

\* add_initial in runInteraction: the INSERT with status 'ERROR' commits, or it
\* raises SubmitException, the transaction rolls back and the errback runs.
add_initial(j, ok) ==
  /\ spc[j] = "add_initial"
  /\ status' = IF ok THEN [status EXCEPT ![j] = "ERROR"] ELSE status
  /\ failed' = IF ok THEN failed ELSE [failed EXCEPT ![j] = "create"]
  /\ spc' = [spc EXCEPT ![j] = chain_next("add_initial", ok)]
  /\ resp' = [resp EXCEPT ![j] = chain_response(@, j, spc'[j])]
  /\ UNCHANGED <<fts_jobid, fts_details, extra_status, everStaging, sq, qvars,
                 lvars, semvars, xvars, ftsState, pvars>>

\* add_to_rabbitmq: channel, queue_declare, basic_publish of job_uuid; any of
\* them may raise, and then nothing is published and the errback runs.
add_to_rabbitmq(j, ok) ==
  /\ spc[j] = "add_to_rabbitmq"
  /\ sq' = IF ok THEN basic_publish(sq, j) ELSE sq
  /\ failed' = IF ok THEN failed ELSE [failed EXCEPT ![j] = "publish"]
  /\ spc' = [spc EXCEPT ![j] = chain_next("add_to_rabbitmq", ok)]
  /\ resp' = [resp EXCEPT ![j] = chain_response(@, j, spc'[j])]
  /\ UNCHANGED <<dbvars, qvars, lvars, semvars, xvars, ftsState, pvars>>

\* update_job_status_submitted in runInteraction (the UPDATE to 'STAGING'
\* commits or raises), then the step the chain goes to.
update_job_status_submitted(j, ok) ==
  /\ spc[j] = "update_job_status_submitted"
  /\ status' = IF ok THEN [status EXCEPT ![j] = "STAGING"] ELSE status
  /\ everStaging' = IF ok THEN [everStaging EXCEPT ![j] = TRUE] ELSE everStaging
  /\ failed' = IF ok THEN failed ELSE [failed EXCEPT ![j] = "mark"]
  /\ spc' = [spc EXCEPT ![j] = chain_next("update_job_status_submitted", ok)]
  /\ resp' = [resp EXCEPT ![j] = chain_response(@, j, spc'[j])]
  /\ UNCHANGED <<fts_jobid, fts_details, extra_status, sq, qvars, lvars, semvars,
                 xvars, ftsState, pvars>>

(***************************************************************************)
(* The broker's transfer-intake queue and the external transfer service     *)
(***************************************************************************)

\* The staging pipeline (or the broker, redelivering) puts a job id that was
\* published for staging, or an empty body, on the transfer-intake queue.
transfer_queue_publish(b) ==
  /\ Len(tq) < MaxMsgs
  /\ b \in sq \cup {EmptyBody}
  /\ tq' = Append(tq, b)
  /\ UNCHANGED <<dbvars, sagavars, delivered, acked, lvars, semvars, xvars,
                 ftsState, pvars>>

\* fts3.get_job_status: the job_state the external service may answer for a
\* transfer whose last known state is cur. FINISHED and FAILED are final; a
\* transfer in progress may meanwhile have finished or failed.
get_job_status(cur) ==
  IF cur = "ACTIVE" THEN {"ACTIVE", "FINISHED", "FAILED"} ELSE {cur}

(***************************************************************************)
(* _sem_fts = DeferredSemaphore(int(concurrent_max))                        *)
(***************************************************************************)

\* Mutant: acquire() grants a slot also when none is free.
sem_acquire_never_waits(tok) ==
  [tokens |-> IF tok = 0 THEN 0 ELSE tok - 1, granted |-> TRUE]

\* _sem_fts.acquire(): a token if there is one, else the caller waits.
sem_acquire(tok) ==
  IF tok = 0 THEN [tokens |-> tok, granted |-> FALSE]
             ELSE [tokens |-> tok - 1, granted |-> TRUE]

\* _sem_fts.release(): the token goes to the waiter if there is one.
sem_release(tok, waiting) ==
  IF waiting THEN [tokens |-> tok, wake |-> TRUE]
             ELSE [tokens |-> tok + 1, wake |-> FALSE]

(***************************************************************************)
(* _transfer_queue_listener                                                 *)
(***************************************************************************)

\* Lines 197-198, run once the acquire has been granted: queue the call of
\* _start_fts_transfer, then basic_ack. The loop has no try: if basic_ack
\* raises (the channel is closed) the exception leaves the generator.
listener_after_acquire(ackOk) ==
  IF ackOk THEN <<"acquire", "dispatch", "ack">>
           ELSE <<"acquire", "dispatch", "ack_failed">>

\* Mutant: a message with an empty body is acknowledged.
listener_on_delivery_acks_empty(body, tok, ackOk) ==
  IF body = EmptyBody
    THEN [tokens |-> tok, wait |-> FALSE, trace |-> <<"ack">>]
    ELSE LET a == sem_acquire(tok) IN
         IF a.granted
           THEN [tokens |-> a.tokens, wait |-> FALSE,
                 trace |-> listener_after_acquire(ackOk)]
           ELSE [tokens |-> a.tokens, wait |-> TRUE, trace |-> <<>>]

\* Mutant: basic_ack is sent before the acquire is waited for.
listener_on_delivery_acks_first(body, tok, ackOk) ==
  IF body = EmptyBody
    THEN [tokens |-> tok, wait |-> FALSE, trace |-> <<>>]
    ELSE LET a == sem_acquire(tok) IN
         IF a.granted
           THEN [tokens |-> a.tokens, wait |-> FALSE,
                 trace |-> <<"ack", "acquire", "dispatch">>]
           ELSE [tokens |-> a.tokens, wait |-> TRUE, trace |-> <<"ack">>]

Has(tr, ev) == \E i \in 1..Len(tr) : tr[i] = ev

\* One pass of the loop body for a delivery with this body, with tok free
\* slots: what the listener has done when it next suspends.
listener_on_delivery(body, tok, ackOk) ==
  IF body = EmptyBody
    THEN [tokens |-> tok, wait |-> FALSE, trace |-> <<>>]
    ELSE LET a == sem_acquire(tok) IN
         IF a.granted
           THEN [tokens |-> a.tokens, wait |-> FALSE,
                 trace |-> listener_after_acquire(ackOk)]
           ELSE [tokens |-> a.tokens, wait |-> TRUE, trace |-> <<>>]

\* Where the listener is after a pass that left this trace: ended by the
\* exception of basic_ack, suspended in acquire(), or back in queue.get().
listener_pc(wait, tr) ==
  IF Has(tr, "ack_failed") THEN "dead"
  ELSE IF wait THEN "acquire" ELSE "get"

\* Mutant: _start_fts_transfer is called inline, up to its first yield,
\* instead of being queued.
ListenerEffects_calls_inline(t, tr) ==
  /\ ltrace' = [ltrace EXCEPT ![t] = @ \o tr]
  /\ exec' = IF Has(tr, "dispatch") THEN [exec EXCEPT ![t] = "select"] ELSE exec
  /\ acked' = IF Has(tr, "ack") THEN acked \cup {t} ELSE acked

\* The effect of the listener's trace for tag t on the executor table and on
\* the broker.
ListenerEffects(t, tr) ==
  /\ ltrace' = [ltrace EXCEPT ![t] = @ \o tr]
  /\ exec' = IF Has(tr, "dispatch") THEN [exec EXCEPT ![t] = "scheduled"] ELSE exec
  /\ acked' = IF Has(tr, "ack") THEN acked \cup {t} ELSE acked

\* queue.get() returns the next delivery. With prefetch_count=1 the broker
\* delivers it only when no earlier delivery is unacknowledged.
transfer_queue_listener(ackOk) ==
  /\ lpc = "get"
  /\ delivered < Len(tq)
  /\ \A t \in 1..delivered : t \in acked
  /\ LET t == delivered + 1
         body == tq[t]
         r == listener_on_delivery(body, tokens, ackOk)
     IN /\ delivered' = t
        /\ tokens' = r.tokens
        /\ limit' = limit
        /\ lpc' = listener_pc(r.wait, r.trace)
        /\ ListenerEffects(t, r.trace)
        /\ execLog' = [execLog EXCEPT ![t].left =
             /\ body # EmptyBody
             /\ \E u \in 1..delivered : tq[u] = body
             /\ everStaging[body]
             /\ status[body] # "STAGING"]
  /\ UNCHANGED <<dbvars, sagavars, tq, errw, ftsState, pvars>>

(***************************************************************************)
(* _start_fts_transfer                                                      *)
(***************************************************************************)

\* The call queued by callFromThread runs: fts3.Context, then the SELECT is
\* issued. If the context cannot be created the ERROR update is issued
\* (not awaited) and the function returns.
start_fts_transfer_context(t, ok) ==
  /\ exec[t] = "scheduled"
  /\ IF ok
       THEN /\ exec' = [exec EXCEPT ![t] = "select"]
            /\ errw' = errw
       ELSE /\ exec' = [exec EXCEPT ![t] = "context_failed"]
            /\ errw' = [errw EXCEPT ![t] = "Failed to create FTS context"]
  /\ UNCHANGED <<dbvars, sagavars, qvars, lvars, semvars, execLog, ftsState, pvars>>

\* Mutant: a submission that raised is taken for accepted.
fts_submit_unchecked(submitOk, statusOk) ==
  [submitted |-> submitOk, ok |-> TRUE]

\* What lines 138-149 do once the SELECT has answered: new_transfer, new_job,
\* submit, get_job_status. submitted: the service accepted the job; ok: all
\* four calls returned.
fts_submit(submitOk, statusOk) ==
  [submitted |-> submitOk, ok |-> submitOk /\ statusOk]

\* The SELECT answers (or raises, and the exception leaves the function):
\* the transfer is submitted and the TRANSFERRING update issued, or the
\* ERROR update is issued (not awaited) and the function returns.
start_fts_transfer_submit(t, dbOk, submitOk, statusOk) ==
  /\ exec[t] = "select"
  /\ status[tq[t]] # "NONE"
  /\ LET s == fts_submit(submitOk, statusOk) IN
     IF ~dbOk
       THEN /\ exec' = [exec EXCEPT ![t] = "select_failed"]
            /\ UNCHANGED <<errw, execLog, ftsState>>
       ELSE /\ ftsState' = IF s.submitted THEN [ftsState EXCEPT ![t] = "ACTIVE"]
                                          ELSE ftsState
            /\ execLog' = execLog
            /\ exec' = [exec EXCEPT ![t] = IF s.ok THEN "update" ELSE "submit_failed"]
            /\ errw' = IF s.ok THEN errw
                       ELSE [errw EXCEPT ![t] = "Error submitting job to FTS"]
  /\ UNCHANGED <<dbvars, sagavars, qvars, lvars, semvars, pvars>>

\* The row written by "UPDATE jobs SET status='TRANSFERRING', fts_jobid,
\* fts_details WHERE job_id": the statement has no condition on the status.
transferring_update(h) ==
  [status |-> "TRANSFERRING", fts_jobid |-> h, fts_details |-> "ACTIVE"]

\* The TRANSFERRING update answers: committed, or it raised and the ERROR
\* update is issued (not awaited). Either way the function returns; it never
\* calls _sem_fts.release().
start_fts_transfer_update(t, ok) ==
  /\ exec[t] = "update"
  /\ LET j == tq[t]
         w == transferring_update(t)
     IN IF ok
          THEN /\ status' = [status EXCEPT ![j] = w.status]
               /\ fts_jobid' = [fts_jobid EXCEPT ![j] = w.fts_jobid]
               /\ fts_details' = [fts_details EXCEPT ![j] = w.fts_details]
               /\ exec' = [exec EXCEPT ![t] = "returned"]
               /\ execLog' = execLog
               /\ errw' = errw
          ELSE /\ UNCHANGED <<status, fts_jobid, fts_details, execLog>>
               /\ exec' = [exec EXCEPT ![t] = "update_failed"]
               /\ errw' = [errw EXCEPT ![t] =
                    "Error updating job status following FTS submission"]
  /\ UNCHANGED <<extra_status, everStaging, sagavars, qvars, lvars, semvars,
                 ftsState, pvars>>

\* An unawaited "UPDATE jobs SET status='ERROR', extra_status" is run by the
\* pool: it commits, or fails with nobody to notice.
start_fts_transfer_error_update(t, ok) ==
  /\ errw[t] # "none"
  /\ errw' = [errw EXCEPT ![t] = "none"]
  /\ IF ok
       THEN /\ status' = [status EXCEPT ![tq[t]] = "ERROR"]
            /\ extra_status' = [extra_status EXCEPT ![tq[t]] = errw[t]]
       ELSE UNCHANGED <<status, extra_status>>
  /\ UNCHANGED <<fts_jobid, fts_details, everStaging, sagavars, qvars, lvars,
                 semvars, exec, execLog, ftsState, pvars>>

ExecFailed == {"context_failed", "submit_failed", "update_failed"}

(***************************************************************************)
(* _FTSUpdater, run by LoopingCall: a run starts only when the Deferred of  *)
(* the previous run has fired.                                              *)
(***************************************************************************)

\* Mutant: release() is called after the update in the else branch too.
updater_branch_always_releases(state) ==
  IF state = "FINISHED" THEN [status |-> "SUCCESS", release |-> TRUE]
  ELSE IF state = "FAILED" THEN [status |-> "ERROR", release |-> TRUE]
  ELSE [status |-> "KEEP", release |-> TRUE]

\* Mutant: the else branch writes status ERROR.
updater_branch_else_marks_error(state) ==
  IF state = "FINISHED" THEN [status |-> "SUCCESS", release |-> TRUE]
  ELSE IF state = "FAILED" THEN [status |-> "ERROR", release |-> TRUE]
  ELSE [status |-> "ERROR", release |-> FALSE]

\* Lines 82-98: the status written for a job_state (or "KEEP": fts_details
\* only) and whether _sem_fts.release() follows the update.
updater_branch(state) ==
  IF state = "FINISHED" THEN [status |-> "SUCCESS", release |-> TRUE]
  ELSE IF state = "FAILED" THEN [status |-> "ERROR", release |-> TRUE]
  ELSE [status |-> "KEEP", release |-> FALSE]

\* Mutant: the SELECT lists every job that has a handle, whatever its status.
updater_rows_any_status == {<<j, fts_jobid[j]>> : j \in {i \in Jobs : fts_jobid[i] # 0}}

\* The rows of "SELECT job_id, fts_jobid FROM jobs WHERE status='TRANSFERRING'".
updater_rows == {<<j, fts_jobid[j]>> : j \in {i \in Jobs : status[i] = "TRANSFERRING"}}

AbortRun == ppc' = "idle" /\ plist' = {} /\ pcur' = NoCur /\ ftsState' = ftsState

\* Head of "for job in r": no row left and the run ends; or the next row is
\* taken, get_job_status is called for it and its update is issued; or
\* get_job_status raises, which ends the run (the try encloses the loop).
FTSUpdater_next(r) ==
  IF r = {}
    THEN AbortRun
    ELSE \E row \in r, ok \in BOOLEAN :
           IF ok
             THEN \E state \in get_job_status(ftsState[row[2]]) :
                  /\ ftsState' = [ftsState EXCEPT ![row[2]] = state]
                  /\ ppc' = "update"
                  /\ plist' = r \ {row}
                  /\ pcur' = [job_id |-> row[1], fts_jobid |-> row[2],
                              state |-> state]
             ELSE AbortRun

\* A run: fts3.Context and the SELECT (if either raises the run returns at
\* once), then the loop is entered with the rows the SELECT read. Nothing
\* else can tell a run that waits for its SELECT from no run, so the run is
\* taken to start when the SELECT reads the table.
FTSUpdater_start(ctxOk, dbOk) ==
  /\ ppc = "idle"
  /\ IF ctxOk /\ dbOk THEN FTSUpdater_next(updater_rows) ELSE AbortRun
  /\ UNCHANGED <<dbvars, sagavars, qvars, lvars, semvars, xvars, plog>>

\* The UPDATE issued for the current row is run by the pool: it commits, or
\* it raises and the run returns. The UPDATE names the job only: it has no
\* condition on the status.
FTSUpdater_update(ok) ==
  /\ ppc = "update"
  /\ LET j == pcur.job_id
         b == updater_branch(pcur.state)
     IN IF ok
          THEN /\ status' = IF b.status = "KEEP" THEN status
                            ELSE [status EXCEPT ![j] = b.status]
               /\ fts_details' = [fts_details EXCEPT ![j] = pcur.state]
               /\ plog' = IF b.status = "KEEP" THEN plog
                          ELSE [plog EXCEPT ![pcur.fts_jobid].terminal = @ + 1]
               /\ ppc' = "resume"
               /\ UNCHANGED <<plist, pcur, ftsState>>
          ELSE /\ AbortRun
               /\ UNCHANGED <<status, fts_details, plog>>
  /\ UNCHANGED <<fts_jobid, extra_status, everStaging, sagavars, qvars, lvars,
                 semvars, xvars>>

\* The run resumes after the update: _sem_fts.release() for a terminal
\* job_state, which hands the slot to the listener if it waits in acquire()
\* and runs it up to its next queue.get(); then the next row. release()
\* asserts tokens < limit; a failed assertion ends the run.
FTSUpdater_resume(ackOk) ==
  /\ ppc = "resume"
  /\ LET b == updater_branch(pcur.state)
         s == sem_release(tokens, lpc = "acquire")
         tr == IF s.wake THEN listener_after_acquire(ackOk) ELSE <<>>
     IN IF ~b.release
          THEN /\ FTSUpdater_next(plist)
               /\ UNCHANGED <<qvars, lvars, semvars, exec, plog>>
          ELSE IF tokens >= limit
            THEN /\ AbortRun
                 /\ UNCHANGED <<qvars, lvars, semvars, exec, plog>>
            ELSE /\ tokens' = s.tokens
                 /\ limit' = limit
                 /\ lpc' = IF s.wake THEN listener_pc(FALSE, tr) ELSE lpc
                 /\ ListenerEffects(delivered, tr)
                 /\ plog' = [plog EXCEPT ![pcur.fts_jobid].released = @ + 1]
                 /\ FTSUpdater_next(plist)
                 /\ UNCHANGED <<tq, delivered>>
  /\ UNCHANGED <<dbvars, sagavars, errw, execLog>>

(***************************************************************************)
(* The system                                                               *)
(***************************************************************************)

Next ==
  \/ \E j \in Jobs, args \in SUBSET FormVars : render_POST(j, args)
  \/ \E j \in Jobs, ok \in BOOLEAN : add_initial(j, ok)
  \/ \E j \in Jobs, ok \in BOOLEAN : add_to_rabbitmq(j, ok)
  \/ \E j \in Jobs, ok \in BOOLEAN : update_job_status_submitted(j, ok)
  \/ \E b \in Jobs \cup {EmptyBody} : transfer_queue_publish(b)
  \/ \E ackOk \in BOOLEAN : transfer_queue_listener(ackOk)
  \/ \E t \in Tags, ok \in BOOLEAN : start_fts_transfer_context(t, ok)
  \/ \E t \in Tags, dbOk, submitOk, statusOk \in BOOLEAN :
       start_fts_transfer_submit(t, dbOk, submitOk, statusOk)
  \/ \E t \in Tags, ok \in BOOLEAN : start_fts_transfer_update(t, ok)
  \/ \E t \in Tags, ok \in BOOLEAN : start_fts_transfer_error_update(t, ok)
  \/ \E ctxOk, dbOk \in BOOLEAN : FTSUpdater_start(ctxOk, dbOk)
  \/ \E ok \in BOOLEAN : FTSUpdater_update(ok)
  \/ \E ackOk \in BOOLEAN : FTSUpdater_resume(ackOk)

Spec == Init /\ [][Next]_vars

\* The poller run that sees a final job_state for the row it takes first.
FTSUpdater_sees_final ==
  FTSUpdater_start(TRUE, TRUE) /\ pcur'.state \in {"FINISHED", "FAILED"}

\* Fair scheduling: the reactor runs every callback that is ready, the pool
\* runs every statement it was given, LoopingCall keeps calling _FTSUpdater;
\* every accepted transfer ends and the poller gets to see it, and the
\* poller's statements do not fail for ever.
Fairness ==
  /\ WF_vars(\E ackOk \in BOOLEAN : transfer_queue_listener(ackOk))
  /\ WF_vars(\E t \in Tags, ok \in BOOLEAN : start_fts_transfer_context(t, ok))
  /\ WF_vars(\E t \in Tags, dbOk, submitOk, statusOk \in BOOLEAN :
               start_fts_transfer_submit(t, dbOk, submitOk, statusOk))
  /\ WF_vars(\E t \in Tags, ok \in BOOLEAN : start_fts_transfer_update(t, ok))
  /\ WF_vars(\E t \in Tags, ok \in BOOLEAN : start_fts_transfer_error_update(t, ok))
  /\ SF_vars(FTSUpdater_sees_final)
  /\ SF_vars(FTSUpdater_update(TRUE))
  /\ WF_vars(\E ackOk \in BOOLEAN : FTSUpdater_resume(ackOk))

FairSpec == Spec /\ Fairness

(***************************************************************************)
(* Quantities the properties are stated in                                  *)
(***************************************************************************)

Transferring == {j \in Jobs : status[j] = "TRANSFERRING"}

Published == 1..Len(tq)

\* Slots the listener acquired for messages of job j.
Acquired(j) ==
  Cardinality({t \in Published : tq[t] = j /\ Has(ltrace[t], "acquire")})

RECURSIVE ReleasedUpTo(_, _)
ReleasedUpTo(j, t) ==
  IF t = 0 THEN 0
  ELSE ReleasedUpTo(j, t - 1) + (IF tq[t] = j THEN plog[t].released ELSE 0)

\* Slots the poller released after a terminal update of job j.
Released(j) == ReleasedUpTo(j, Len(tq))

SlotsFor(j) == Acquired(j) - Released(j)

RECURSIVE SlotsUpTo(_)
SlotsUpTo(j) == IF j = 0 THEN 0 ELSE SlotsUpTo(j - 1) + SlotsFor(j)

HeldSlots == SlotsUpTo(MaxJobs)

Accepted(j) == [code |-> 202, body |-> "accepted", job_id |-> j, finished |-> TRUE]

(***************************************************************************)
(* Properties                                                               *)
(***************************************************************************)

\* C1: in every reachable state the gate has at most N slots held (slots
\* acquired minus slots released, which is what the semaphore counts) and at
\* most N jobs have status TRANSFERRING.
C1_GateBound ==
  /\ tokens \in 0..limit
  /\ HeldSlots = limit - tokens
  /\ HeldSlots <= limit
  /\ Cardinality(Transferring) <= limit

\* The gate is full, N jobs are TRANSFERRING and the listener waits in
\* acquire() with the message of a further job.
C1_Witness ==
  /\ tokens = 0
  /\ lpc = "acquire"
  /\ Cardinality(Transferring) = limit
  /\ tq[delivered] \notin Transferring

\* C2: for every external transfer the poller makes at most one terminal
\* update (SUCCESS for FINISHED, ERROR for FAILED) and releases exactly one
\* slot after it; an update for any other job_state leaves the status and the
\* gate alone, and no later run updates or releases for that transfer again.
C2_TerminalOnce ==
  [][ /\ (ppc = "update" /\ ppc' = "resume") =>
           status'[pcur.job_id] =
             (CASE pcur.state = "FINISHED" -> "SUCCESS"
                [] pcur.state = "FAILED" -> "ERROR"
                [] OTHER -> status[pcur.job_id])
      /\ (ppc = "resume" /\ ppc' # "resume") =>
           (tokens' - tokens) + (IF lpc = "acquire" /\ lpc' # "acquire" THEN 1 ELSE 0)
             = (IF pcur.state \in {"FINISHED", "FAILED"} THEN 1 ELSE 0)
      /\ (ppc # "resume" \/ ppc' = "resume") => tokens' <= tokens
      /\ \A h \in Tags :
           /\ plog'[h].terminal <= 1
           /\ plog'[h].released <= plog'[h].terminal
           /\ plog'[h].released < plog'[h].terminal =>
                ppc' = "resume" /\ pcur'.fts_jobid = h
           /\ plog'[h].terminal = 1 => ftsState'[h] \in {"FINISHED", "FAILED"}
    ]_vars

\* A transfer finished, its job was moved to SUCCESS and its slot released,
\* and a later run of the poller is handling a row.
C2_Witness ==
  \E h \in Tags :
    /\ ftsState[h] = "FINISHED"
    /\ plog[h].terminal = 1
    /\ plog[h].released = 1
    /\ status[tq[h]] = "SUCCESS"
    /\ ppc = "update"

\* C3: once a job's status is SUCCESS or ERROR no step changes it.
C3_TerminalSticky ==
  [][\A j \in Jobs : status[j] \in Terminal => status'[j] = status[j]]_vars

\* C4: when every run of the submission executor for a job has left through
\* a failure exit, no slot is held for that job.
C4_FailureExitReleases ==
  \A j \in Jobs :
    ( /\ \E t \in Published : tq[t] = j /\ exec[t] \in ExecFailed
      /\ \A t \in Published : tq[t] = j => exec[t] \in ExecFailed \cup {"none"} )
    => SlotsFor(j) = 0

\* C5: each job holds at most one slot, acquired at most once and released at
\* most once, however often its message is delivered.
C5_OneSlotPerJob ==
  \A j \in Jobs :
    /\ SlotsFor(j) \in {0, 1}
    /\ Acquired(j) <= 1
    /\ Released(j) <= 1

\* C6: a message is acknowledged only after its slot was acquired and its
\* executor dispatched, in that order; while the listener waits in acquire()
\* the message it holds is unacknowledged and not dispatched.
C6_AckAfterDispatch ==
  /\ \A t \in Tags :
       t \in acked => /\ ltrace[t] = <<"acquire", "dispatch", "ack">>
                      /\ exec[t] # "none"
  /\ lpc = "acquire" => /\ tokens = 0
                        /\ delivered \notin acked
                        /\ exec[delivered] = "none"
                        /\ ltrace[delivered] = <<>>

\* One message was acknowledged after acquire and dispatch, and the listener
\* waits in acquire() with the next one, unacknowledged.
C6_Witness ==
  /\ lpc = "acquire"
  /\ delivered \notin acked
  /\ \E t \in acked : ltrace[t] = <<"acquire", "dispatch", "ack">>

\* C7: a run of the saga whose create, publish and mark-STAGING steps all
\* succeed publishes exactly its job id on the staging-intake queue and ends
\* with the record in STAGING and the accepted response carrying the job id.
C7_SagaSuccess ==
  [][\A j \in Jobs :
       /\ (spc[j] = "add_to_rabbitmq" /\ spc'[j] = "update_job_status_submitted")
            => sq' = sq \cup {j} /\ j \notin sq
       /\ (spc[j] # "reported" /\ spc'[j] = "reported" /\ failed'[j] = "none")
            => /\ status'[j] = "STAGING"
               /\ j \in sq'
               /\ resp'[j] = Accepted(j)
    ]_vars

\* A run ended with every step succeeded.
C7_Witness ==
  \E j \in Jobs :
    /\ spc[j] = "reported"
    /\ failed[j] = "none"
    /\ status[j] = "STAGING"
    /\ j \in sq
    /\ resp[j] = Accepted(j)

\* C8: after a failed publish the record keeps status ERROR, the update to
\* STAGING is never run and the job id is not on the staging-intake queue.
C8_PublishFailure ==
  \A j \in Jobs :
    failed[j] = "publish" => /\ status[j] = "ERROR"
                             /\ ~everStaging[j]
                             /\ spc[j] = "errback"
                             /\ j \notin sq

\* The publish step of a run failed.
C8_Witness ==
  \E j \in Jobs : failed[j] = "publish" /\ spc[j] = "errback" /\ status[j] = "ERROR"

\* C9: a run in which a step failed ends with a completed error response
\* carrying the job id, never with the accepted response.
C9_FailureResponse ==
  \A j \in Jobs :
    (failed[j] # "none" /\ spc[j] \in {"errback", "reported"})
      => /\ resp[j].finished
         /\ resp[j].body = "error"
         /\ resp[j].job_id = j

\* C10: a run of the executor for a message redelivered after the job left
\* STAGING submits no transfer and writes nothing to the job's row.
C10_RedeliveryNoop ==
  \A t \in Tags :
    execLog[t].left => /\ ftsState[t] = "NONE"
                       /\ errw[t] = "none"
                       /\ exec[t] \in {"none", "scheduled", "select"}

\* C11: a poller run that ends because handling one row failed (its status
\* query or its update raised) leaves no other listed row unhandled.
C11_FailureIsolated ==
  [][ /\ (ppc = "update" /\ ppc' = "idle") => plist = {}
      /\ (ppc = "resume" /\ ppc' = "idle") => Cardinality(plist) <= 1
    ]_vars

\* C12: a message whose acknowledgment failed is not acknowledged, and the
\* listener loop is still running afterwards (in queue.get() or in acquire()),
\* so that later messages can be dequeued.
C12_ListenerContinues ==
  \A t \in Tags :
    Has(ltrace[t], "ack_failed") => /\ t \notin acked
                                    /\ lpc \in {"get", "acquire"}

\* C13: a record's fts_jobid is non-null exactly when its status has been
\* TRANSFERRING: both are written by one and the same update, for a transfer
\* the external service accepted, and the handle is never cleared.
C13_HandleIffTransferring ==
  [][\A j \in Jobs :
       /\ (status'[j] = "TRANSFERRING" /\ status[j] # "TRANSFERRING")
            => fts_jobid'[j] # 0 /\ fts_jobid'[j] # fts_jobid[j]
       /\ fts_jobid'[j] # fts_jobid[j]
            => /\ status'[j] = "TRANSFERRING"
               /\ fts_jobid'[j] # 0
               /\ ftsState[fts_jobid'[j]] # "NONE"
               /\ fts_details'[j] # "NULL"
       /\ status'[j] = "TRANSFERRING" => fts_jobid'[j] # 0
       /\ fts_jobid[j] # 0 => fts_jobid'[j] # 0
    ]_vars

\* One job went through TRANSFERRING and keeps its handle in SUCCESS; for
\* another the service accepted a transfer but the executor failed, and its
\* record, never TRANSFERRING, has no handle.
C13_Witness ==
  /\ \E j \in Jobs : status[j] = "SUCCESS" /\ fts_jobid[j] # 0
  /\ \E t \in Published :
       /\ tq[t] # EmptyBody
       /\ exec[t] \in ExecFailed
       /\ fts_jobid[tq[t]] = 0
       /\ status[tq[t]] = "ERROR"

\* C14: under fair scheduling, with every accepted transfer ending, a
\* listener suspended in acquire() eventually gets a slot.
C14_NoStarvation == (lpc = "acquire") ~> (lpc # "acquire")

NonFinal(state) == state \notin {"FINISHED", "FAILED"}

\* C15: for a job_state other than FINISHED or FAILED the poller's update
\* writes fts_details of that job and nothing else, and the run goes on
\* without touching the gate or the listener.
C15_DetailsOnly ==
  [][ /\ (ppc = "update" /\ ppc' = "resume" /\ NonFinal(pcur.state))
           => /\ fts_details' = [fts_details EXCEPT ![pcur.job_id] = pcur.state]
              /\ status' = status
              /\ fts_jobid' = fts_jobid
              /\ extra_status' = extra_status
              /\ tokens' = tokens
      /\ (ppc = "resume" /\ ppc' # "resume" /\ NonFinal(pcur.state))
           => /\ tokens' = tokens
              /\ UNCHANGED <<dbvars, lvars, qvars, exec>>
    ]_vars

\* The poller stored the details of a transfer still in progress: the job is
\* TRANSFERRING with its handle and its slot is held.
C15_Witness ==
  /\ ppc = "resume"
  /\ NonFinal(pcur.state)
  /\ status[pcur.job_id] = "TRANSFERRING"
  /\ fts_jobid[pcur.job_id] = pcur.fts_jobid
  /\ fts_details[pcur.job_id] = pcur.state
  /\ tokens < limit

\* C16: the poller releases a slot only right after its committed update of
\* the same job from TRANSFERRING to SUCCESS or ERROR, in the same run; when
\* that update fails nothing is released and the status stays as it was.
C16_ReleaseOnTransition ==
  [][ /\ (ppc = "update" /\ ppc' = "resume" /\ ~NonFinal(pcur.state))
           => /\ status[pcur.job_id] = "TRANSFERRING"
              /\ status'[pcur.job_id] \in Terminal
      /\ (tokens' > tokens \/ (lpc = "acquire" /\ lpc' # "acquire"))
           => /\ ppc = "resume"
              /\ ~NonFinal(pcur.state)
              /\ pcur' # pcur
      /\ (ppc = "update" /\ ppc' = "idle")
           => tokens' = tokens /\ lpc' = lpc /\ status' = status
    ]_vars

\* C17: whenever the poller queries the external service for a row, the
\* executor run that submitted the row's transfer has committed its
\* TRANSFERRING update with that handle; at the SELECT the record holds
\* status TRANSFERRING and the handle.
C17_CommitBeforeObservation ==
  [][ (pcur' # pcur /\ pcur' # NoCur)
        => LET j == pcur'.job_id
               h == pcur'.fts_jobid
           IN /\ h \in Published
              /\ tq[h] = j
              /\ exec[h] = "returned"
              /\ fts_jobid[j] # 0
              /\ ppc = "idle" => (status[j] = "TRANSFERRING" /\ fts_jobid[j] = h)
    ]_vars

\* The poller has queried the service for a job whose record holds
\* TRANSFERRING and the handle, and was told the transfer failed.
C17_Witness ==
  /\ ppc = "update"
  /\ pcur.state = "FAILED"
  /\ status[pcur.job_id] = "TRANSFERRING"
  /\ fts_jobid[pcur.job_id] = pcur.fts_jobid
  /\ exec[pcur.fts_jobid] = "returned"

\* C18: the saga creates the record, then publishes, then marks STAGING: every
\* job id on the staging-intake queue has a committed record, a record is
\* STAGING only if its id was published, and a chain that has not reached a
\* step has not had that step's effect.
C18_SagaOrder ==
  \A j \in Jobs :
    /\ j \in sq => status[j] # "NONE"
    /\ status[j] = "STAGING" => j \in sq
    /\ spc[j] \in {"idle", "add_initial"} => status[j] = "NONE" /\ j \notin sq
    /\ spc[j] = "add_to_rabbitmq" => status[j] = "ERROR" /\ j \notin sq
    /\ everStaging[j] => j \in sq /\ spc[j] = "reported"

\* A chain stopped between publish and mark-STAGING: its id is on the queue
\* and its record is there, still ERROR; another chain stopped at the publish.
C18_Witness ==
  /\ \E j \in Jobs :
       spc[j] = "update_job_status_submitted" /\ j \in sq /\ status[j] = "ERROR"
  /\ \E j \in Jobs : failed[j] = "publish" /\ j \notin sq /\ status[j] = "ERROR"

\* C19: the step in which the listener acknowledges a message is the step in
\* which it acquired the slot and queued _start_fts_transfer for it: the
\* executor has not run yet and the store is as it was.
C19_AckDoesNotWait ==
  [][\A t \in Tags :
       (t \notin acked /\ t \in acked')
         => /\ ltrace[t] = <<>>
            /\ ltrace'[t] = <<"acquire", "dispatch", "ack">>
            /\ exec[t] = "none"
            /\ exec'[t] = "scheduled"
            /\ ftsState'[t] = "NONE"
            /\ UNCHANGED <<dbvars, errw>>
    ]_vars

\* A message is acknowledged while its job is still STAGING and its executor
\* has not run.
C19_Witness ==
  \E t \in acked :
    /\ exec[t] = "scheduled"
    /\ status[tq[t]] = "STAGING"
    /\ fts_jobid[tq[t]] = 0
    /\ ftsState[t] = "NONE"

\* C20: the delivery of a message with an empty body changes neither the
\* gate nor the executors nor the acknowledgments and leaves the listener in
\* queue.get(); such a message is never acknowledged or dispatched later.
C20_EmptyBodySkipped ==
  [][ /\ (delivered' = delivered + 1 /\ tq[delivered'] = EmptyBody)
           => /\ lpc' = "get"
              /\ UNCHANGED <<tokens, acked, exec, ltrace, dbvars, ftsState>>
      /\ \A t \in 1..delivered :
           tq[t] = EmptyBody => /\ t \notin acked'
                                /\ exec'[t] = "none"
                                /\ ltrace'[t] = <<>>
    ]_vars

\* A message with an empty body was delivered and left unacknowledged; the
\* listener is back in queue.get() with every slot free, and a later message
\* waits on the queue.
C20_Witness ==
  /\ delivered >= 1
  /\ tq[delivered] = EmptyBody
  /\ delivered \notin acked
  /\ lpc = "get"
  /\ tokens = limit
  /\ Len(tq) > delivered
  /\ tq[Len(tq)] # EmptyBody

====
